---- MODULE Spec2Model ----
(***************************************************************************)
(* The pseudocode-to-component-tree compiler of aia_generator.py and the   *)
(* request handler of app.py.                                              *)
(*                                                                         *)
(* A text (a Python str) is a sequence of one-character strings, so that   *)
(* the regular expressions, strip(), lower(), int() and re.sub() of the    *)
(* source are computed character by character.  The pseudocode is the      *)
(* sequence of its lines, as pseudocode.splitlines() returns it.           *)
(***************************************************************************)
EXTENDS Integers, Sequences, FiniteSets, TLC

\* The longest pseudocode of the model, in lines.
MaxLines == 3

(* Characters *)

UpperChars == <<"A", "B", "C", "D", "E", "F", "G", "H", "I", "J", "K", "L", "M", "N", "O", "P", "Q", "R", "S", "T", "U", "V", "W", "X", "Y", "Z">>

LowerChars == <<"a", "b", "c", "d", "e", "f", "g", "h", "i", "j", "k", "l", "m", "n", "o", "p", "q", "r", "s", "t", "u", "v", "w", "x", "y", "z">>

DigitChars == <<"0", "1", "2", "3", "4", "5", "6", "7", "8", "9">>

Range(s) == { s[k] : k \in DOMAIN s }

\* \s of the re module, on the characters the model's lines use
IsSpace(c) == c \in {" ", "\t"}

\* \d
DigitSet == Range(DigitChars)

IsDigit(c) == c \in DigitSet

\* [A-Za-z0-9_]
IdentSet == Range(UpperChars) \cup Range(LowerChars) \cup Range(DigitChars) \cup {"_"}

IsIdentChar(c) == c \in IdentSet

\* str.lower() on one character
LowerChar(c) ==
    IF c \in Range(UpperChars)
    THEN LowerChars[CHOOSE k \in DOMAIN UpperChars : UpperChars[k] = c]
    ELSE c

\* str.lower()
lower(s) == [k \in DOMAIN s |-> LowerChar(s[k])]

\* the value of one decimal digit
DigitValue(c) == (CHOOSE k \in DOMAIN DigitChars : DigitChars[k] = c) - 1

\* int() of a string of decimal digits (Python integers are unbounded)
RECURSIVE int(_)
int(s) ==
    IF s = <<>> THEN 0
    ELSE 10 * int(SubSeq(s, 1, Len(s) - 1)) + DigitValue(s[Len(s)])

\* str.startswith
startswith(s, p) == Len(s) >= Len(p) /\ SubSeq(s, 1, Len(p)) = p

\* p in s, for strings
Contains(s, p) == \E k \in 0..(Len(s) - Len(p)) : SubSeq(s, k + 1, k + Len(p)) = p

\* str.strip(): leading and trailing whitespace removed
strip(s) ==
    LET keep == { k \in DOMAIN s : ~IsSpace(s[k]) }
    IN  IF keep = {} THEN <<>>
        ELSE SubSeq(s, CHOOSE a \in keep : \A b \in keep : a <= b,
                       CHOOSE a \in keep : \A b \in keep : a >= b)

\* the length of the longest run of [A-Za-z0-9_] characters that starts at
\* position k of s (a greedy [A-Za-z0-9_]* of the re module)
RECURSIVE IdentRun(_, _)
IdentRun(s, k) ==
    IF k <= Len(s) /\ IsIdentChar(s[k]) THEN 1 + IdentRun(s, k + 1) ELSE 0

\* the same for \d*
RECURSIVE DigitRun(_, _)
DigitRun(s, k) ==
    IF k <= Len(s) /\ IsDigit(s[k]) THEN 1 + DigitRun(s, k + 1) ELSE 0

\* the same for \s*
RECURSIVE SpaceRun(_, _)
SpaceRun(s, k) ==
    IF k <= Len(s) /\ IsSpace(s[k]) THEN 1 + SpaceRun(s, k + 1) ELSE 0

\* the same for [^"]*
RECURSIVE NotQuoteRun(_, _)
NotQuoteRun(s, k) ==
    IF k <= Len(s) /\ s[k] # "\"" THEN 1 + NotQuoteRun(s, k + 1) ELSE 0

(* The regular expressions of parse_pseudocode.  A match is a record      *)
(* [matched, group1, group2]; NoMatch stands for None.                     *)

NoMatch == [matched |-> FALSE, group1 |-> <<>>, group2 |-> <<>>]

\* re.match(r'Add <kind> \(Name: ([A-Za-z0-9_]+)\)', line)
MatchAdd(kind, line) ==
    LET pre == <<"A", "d", "d", " ">> \o kind \o <<" ", "(", "N", "a", "m", "e", ":", " ">>
        n   == IdentRun(line, Len(pre) + 1)
    IN  IF /\ startswith(line, pre)
           /\ n >= 1
           /\ Len(line) >= Len(pre) + n + 1
           /\ line[Len(pre) + n + 1] = ")"
        THEN [matched |-> TRUE,
              group1  |-> SubSeq(line, Len(pre) + 1, Len(pre) + n),
              group2  |-> <<>>]
        ELSE NoMatch

MatchAddButton(line) == MatchAdd(<<"B", "u", "t", "t", "o", "n">>, line)

MatchAddLabel(line) == MatchAdd(<<"L", "a", "b", "e", "l">>, line)

\* re.match(r'Set ([A-Za-z0-9_]+)\.Text to "([^"]*)"', line)
MatchSetText(line) ==
    LET pre  == <<"S", "e", "t", " ">>
        n    == IdentRun(line, Len(pre) + 1)
        mid  == <<".", "T", "e", "x", "t", " ", "t", "o", " ", "\"">>
        from == Len(pre) + n + Len(mid)
        t    == NotQuoteRun(line, from + 1)
    IN  IF /\ startswith(line, pre)
           /\ n >= 1
           /\ startswith(SubSeq(line, Len(pre) + n + 1, Len(line)), mid)
           /\ Len(line) >= from + t + 1
           /\ line[from + t + 1] = "\""
        THEN [matched |-> TRUE,
              group1  |-> SubSeq(line, Len(pre) + 1, Len(pre) + n),
              group2  |-> SubSeq(line, from + 1, from + t)]
        ELSE NoMatch

\* re.match(r'Set ([A-Za-z0-9_]+)\.<Prop> to (.+)', line): the second group
\* is the rest of the line, which has to hold at least one character
MatchSetValue(prop, line) ==
    LET pre  == <<"S", "e", "t", " ">>
        n    == IdentRun(line, Len(pre) + 1)
        mid  == <<".">> \o prop \o <<" ", "t", "o", " ">>
        from == Len(pre) + n + Len(mid)
    IN  IF /\ startswith(line, pre)
           /\ n >= 1
           /\ startswith(SubSeq(line, Len(pre) + n + 1, Len(line)), mid)
           /\ Len(line) >= from + 1
        THEN [matched |-> TRUE,
              group1  |-> SubSeq(line, Len(pre) + 1, Len(pre) + n),
              group2  |-> SubSeq(line, from + 1, Len(line))]
        ELSE NoMatch

MatchSetWidth(line) == MatchSetValue(<<"W", "i", "d", "t", "h">>, line)

MatchSetHeight(line) == MatchSetValue(<<"H", "e", "i", "g", "h", "t">>, line)

\* re.search(r'(\d+)', s): the first maximal run of digits of s, None
\* (NoMatch) when s holds no digit
SearchDigits(s) ==
    LET at == { k \in DOMAIN s : IsDigit(s[k]) }
    IN  IF at = {} THEN NoMatch
        ELSE LET first == CHOOSE a \in at : \A b \in at : a <= b
             IN  [matched |-> TRUE,
                  group1  |-> SubSeq(s, first, first + DigitRun(s, first) - 1),
                  group2  |-> <<>>]

(* The lines a pseudocode of the model is made of *)

InputLines ==
    { <<"A", "d", "d", " ", "B", "u", "t", "t", "o", "n", " ", "(", "N", "a", "m", "e", ":", " ", "G", "o", ")">>,
      <<"A", "d", "d", " ", "L", "a", "b", "e", "l", " ", "(", "N", "a", "m", "e", ":", " ", "G", "o", ")">>,
      <<"A", "d", "d", " ", "L", "a", "b", "e", "l", " ", "(", "N", "a", "m", "e", ":", " ", "S", "t", "a", "t", "u", "s", "L", "a", "b", "e", "l", ")">>,
      <<"A", "d", "d", " ", "B", "u", "t", "t", "o", "n", " ", "(", "N", "a", "m", "e", ":", " ", "R", "e", "s", "e", "t", "B", "u", "t", "t", "o", "n", ")">>,
      <<"S", "e", "t", " ", "G", "o", ".", "T", "e", "x", "t", " ", "t", "o", " ", "\"", "S", "t", "a", "r", "t", "\"">>,
      <<"S", "e", "t", " ", "G", "h", "o", "s", "t", ".", "T", "e", "x", "t", " ", "t", "o", " ", "\"", "X", "\"">>,
      <<"S", "e", "t", " ", "G", "o", ".", "W", "i", "d", "t", "h", " ", "t", "o", " ", "5", "0", " ", "p", "e", "r", "c", "e", "n", "t">>,
      <<"S", "e", "t", " ", "G", "o", ".", "W", "i", "d", "t", "h", " ", "t", "o", " ", "5", "0", "%">>,
      <<"S", "e", "t", " ", "G", "o", ".", "W", "i", "d", "t", "h", " ", "t", "o", " ", "1", "2", "0", "p", "x">>,
      <<"S", "e", "t", " ", "G", "o", ".", "W", "i", "d", "t", "h", " ", "t", "o", " ", "w", "i", "d", "e">>,
      <<"S", "e", "t", " ", "G", "o", ".", "W", "i", "d", "t", "h", " ", "t", "o", " ", "P", "e", "r", "c", "e", "n", "t">>,
      <<" ", " ", "S", "e", "t", " ", "G", "o", ".", "H", "e", "i", "g", "h", "t", " ", "t", "o", " ", "7", "0">>,
      <<"S", "e", "t", " ", "G", "o", ".", "H", "e", "i", "g", "h", "t", " ", "t", "o", " ", "t", "a", "l", "l">>,
      <<"S", "e", "t", " ", "S", "t", "a", "t", "u", "s", "L", "a", "b", "e", "l", ".", "W", "i", "d", "t", "h", " ", "t", "o", " ", "4", "0", " ", "P", "E", "R", "C", "E", "N", "T">>,
      <<"A", "d", "d", " ", "W", "i", "d", "g", "e", "t", " ", "(", "N", "a", "m", "e", ":", " ", "W", ")">> }

\* the texts of at most MaxLines lines
Texts == UNION { [1..n -> InputLines] : n \in 0..MaxLines }

\* the lines of the texts find_unknown_components is tried on
DetectLines ==
    { <<"A", "d", "d", " ", "W", "i", "d", "g", "e", "t", " ", "(", "N", "a", "m", "e", ":", " ", "W", ")">>,
      <<" ", " ", "A", "d", "d", " ", "L", "a", "b", "e", "l", "2", " ", "(", "N", "a", "m", "e", ":", " ", "L", ")">>,
      <<"S", "e", "t", " ", "B", "u", "t", "t", "o", "n", "7", ".", "T", "e", "x", "t", " ", "t", "o", " ", "\"", "x", "\"">>,
      <<"S", "e", "t", " ", "B", "7", ".", "T", "e", "x", "t", " ", "t", "o", " ", "\"", "c", "\"">>,
      <<"S", "e", "t", " ", "X", ".", "T", "e", "x", "t", " ", "t", "o", " ", "\"", "a", "\"">>,
      <<"S", "e", "t", " ", "B", "u", "t", "t", "o", "n", "_", "i", ".", "T", "e", "x", "t", " ", "t", "o", " ", "\"", "b", "\"">>,
      <<"S", "e", "t", " ", "G", "l", "o", "b", "a", "l", "C", "o", "u", "n", "t", " ", "t", "o", " ", "0">>,
      <<"W", "h", "e", "n", " ", "G", "l", "o", "b", "a", "l", " ", "c", "h", "a", "n", "g", "e", "s">>,
      <<"W", "h", "e", "n", " ", "G", "i", "z", "m", "o", "1", "2", ".", "C", "l", "i", "c", "k">>,
      <<"F", "o", "r", " ", "e", "a", "c", "h", " ", "G", "a", "d", "g", "e", "t", " ", "i", "n", " ", "l", "i", "s", "t">>,
      <<"D", "e", "f", "i", "n", "e", " ", "G", "l", "o", "b", "a", "l", " ", "T", "o", "t", "a", "l">>,
      <<"S", "e", "t", "t", "l", "e", " ", "G", "a", "d", "g", "e", "t">> }

\* the texts of at most MaxLines of these lines
DetectTexts == UNION { [1..n -> DetectLines] : n \in 0..MaxLines }

(* find_unknown_components *)

\* the default known_components
KnownComponents ==
    { <<"B", "u", "t", "t", "o", "n">>, <<"L", "a", "b", "e", "l">>, <<"V", "e", "r", "t", "i", "c", "a", "l", "A", "r", "r", "a", "n", "g", "e", "m", "e", "n", "t">>, <<"N", "o", "t", "i", "f", "i", "e", "r">>, <<"S", "c", "r", "e", "e", "n">>,
      <<"R", "e", "s", "e", "t", "B", "u", "t", "t", "o", "n">>, <<"S", "t", "a", "t", "u", "s", "L", "a", "b", "e", "l">>, <<"B", "u", "t", "t", "o", "n", "C", "o", "n", "t", "a", "i", "n", "e", "r">> }

\* re.match(r'(Add|Set|When)\s+([A-Za-z0-9_]+)', line)
MatchSubject(line) ==
    LET kws == { kw \in { <<"A", "d", "d">>, <<"S", "e", "t">>, <<"W", "h", "e", "n">> } : startswith(line, kw) }
    IN  IF kws = {} THEN NoMatch
        ELSE LET kw == CHOOSE k \in kws : TRUE
                 w  == SpaceRun(line, Len(kw) + 1)
                 n  == IdentRun(line, Len(kw) + w + 1)
             IN  IF w >= 1 /\ n >= 1
                 THEN [matched |-> TRUE,
                       group1  |-> kw,
                       group2  |-> SubSeq(line, Len(kw) + w + 1, Len(kw) + w + n)]
                 ELSE NoMatch

\* re.sub(r'\d$', '', comp): one digit is taken off
StripLastDigit(comp) ==
    IF comp # <<>> /\ IsDigit(comp[Len(comp)])
    THEN SubSeq(comp, 1, Len(comp) - 1)
    ELSE comp

\* re.sub(r'\d+$', '', comp)
RECURSIVE StripTrailingDigits(_)
StripTrailingDigits(comp) ==
    IF comp # <<>> /\ IsDigit(comp[Len(comp)])
    THEN StripTrailingDigits(SubSeq(comp, 1, Len(comp) - 1))
    ELSE comp

\* one turn of the loop of find_unknown_components: what the line adds to
\* the set unknown
UnknownOfLine(rawline) ==
    LET line == strip(rawline)
    IN  IF \/ startswith(line, <<"F", "o", "r", " ">>)
           \/ startswith(line, <<"D", "e", "f", "i", "n", "e", " ", "G", "l", "o", "b", "a", "l">>)
           \/ startswith(line, <<"S", "e", "t", " ", "G", "l", "o", "b", "a", "l">>)
        THEN {}
        ELSE LET m == MatchSubject(line)
             IN  IF ~m.matched THEN {}
                 ELSE LET comp == m.group2
                          base == StripTrailingDigits(comp)
                      IN  IF \/ comp = <<>>
                             \/ Len(comp) = 1
                             \/ comp = <<"G", "l", "o", "b", "a", "l">>
                             \/ comp = <<"B", "u", "t", "t", "o", "n", "_", "i">>
                          THEN {}
                          ELSE IF base \notin KnownComponents THEN {base} ELSE {}

\* UnknownOfLine, worked out once for each line of the model's texts
UnknownOf == [l \in InputLines \cup DetectLines |-> UnknownOfLine(l)]

\* the loop of find_unknown_components over pseudocode.splitlines()
find_unknown_components(text) == UNION { UnknownOf[text[k]] : k \in DOMAIN text }

(* The component dicts of parse_pseudocode and generate_screen1_scm: a     *)
(* dict is a function from its keys.                                       *)

\* the dict of an Add Button statement
ButtonComponent(name) ==
    [k \in {"$Name", "$Type", "Text", "WidthPercent", "Height", "BackgroundColor",
            "TextColor", "FontSize"} |->
        CASE k = "$Name" -> name
          [] k = "$Type" -> "Button"
          [] k = "Text" -> name
          [] k = "WidthPercent" -> 80
          [] k = "Height" -> 50
          [] k = "BackgroundColor" -> -16776961
          [] k = "TextColor" -> -1
          [] k = "FontSize" -> 16]

\* the dict of an Add Label statement
LabelComponent(name) ==
    [k \in {"$Name", "$Type", "Text", "Width", "FontSize", "TextAlignment"} |->
        CASE k = "$Name" -> name
          [] k = "$Type" -> "Label"
          [] k = "Text" -> name
          [] k = "Width" -> -2
          [] k = "FontSize" -> 18
          [] k = "TextAlignment" -> 1]

\* comp[key] = value
SetItem(comp, key, value) ==
    [k \in DOMAIN comp \cup {key} |-> IF k = key THEN value ELSE comp[k]]

\* del comp[key]
DelItem(comp, key) == [k \in DOMAIN comp \ {key} |-> comp[k]]

StatusLabelName == <<"S", "t", "a", "t", "u", "s", "L", "a", "b", "e", "l">>

ResetButtonName == <<"R", "e", "s", "e", "t", "B", "u", "t", "t", "o", "n">>

\* status_label with the Text an Add Label statement gives: the name
status_label_named ==
    [k \in {"$Name", "$Type", "$Version", "Text", "Width", "FontSize",
            "TextAlignment", "Uuid"} |->
        CASE k = "$Name" -> <<"S", "t", "a", "t", "u", "s", "L", "a", "b", "e", "l">>
          [] k = "$Type" -> "Label"
          [] k = "$Version" -> "7"
          [] k = "Text" -> <<"S", "t", "a", "t", "u", "s", "L", "a", "b", "e", "l">>
          [] k = "Width" -> -2
          [] k = "FontSize" -> 18
          [] k = "TextAlignment" -> 1
          [] k = "Uuid" -> "123456789"]

\* status_label of generate_screen1_scm
status_label ==
    [k \in {"$Name", "$Type", "$Version", "Text", "Width", "FontSize",
            "TextAlignment", "Uuid"} |->
        CASE k = "$Name" -> StatusLabelName
          [] k = "$Type" -> "Label"
          [] k = "$Version" -> "7"
          [] k = "Text" -> <<"N", "o", " ", "b", "u", "t", "t", "o", "n", " ", "c", "l", "i", "c", "k", "e", "d", " ", "y", "e", "t">>
          [] k = "Width" -> -2
          [] k = "FontSize" -> 18
          [] k = "TextAlignment" -> 1
          [] k = "Uuid" -> "123456789"]

\* reset_button of generate_screen1_scm
reset_button ==
    [k \in {"$Name", "$Type", "$Version", "Text", "WidthPercent", "Height",
            "BackgroundColor", "TextColor", "FontSize", "Uuid"} |->
        CASE k = "$Name" -> ResetButtonName
          [] k = "$Type" -> "Button"
          [] k = "$Version" -> "7"
          [] k = "Text" -> <<"R", "e", "s", "e", "t">>
          [] k = "WidthPercent" -> 80
          [] k = "Height" -> 50
          [] k = "BackgroundColor" -> -16776961
          [] k = "TextColor" -> -1
          [] k = "FontSize" -> 16
          [] k = "Uuid" -> "987654321"]

\* str(random.randint(1000000000, 9999999999)): the two ends of the range
\* stand for its values
UuidValues == {"1000000000", "9999999999"}

VARIABLES
    pseudocode,          \* the text of the request, as its lines
    caller,              \* "none", "index" (app.py) or "direct" (a call of
                         \* generate_aia_from_pseudocode)
    preview,             \* 'preview_scm' in request.form
    pc,                  \* "idle", "detected", "parsing", "done"
    unknown_components,  \* index: the result of find_unknown_components
    line_no,             \* parse_pseudocode: the lines consumed so far
    components,          \* parse_pseudocode: components; afterwards
                         \* parsed_components, whose dicts are cleaned in place
    name_to_component,   \* parse_pseudocode: name -> position in components
                         \* (the dict holds a reference to the list's entry)
    cleaned_components,  \* generate_screen1_scm: the final $Components
    response,            \* what the caller gets
    archive,             \* generate_aia_from_pseudocode: the entries written
                         \* to the zip file, in order
    first_document,      \* a caller that compiles its text twice: the
                         \* $Components of the first call, Uuid fields left out
    requests             \* requests served at the same time: the locals of
                         \* the call each of them makes

vars == <<pseudocode, caller, preview, pc, unknown_components, line_no,
          components, name_to_component, cleaned_components, response,
          archive, first_document, requests>>

Init ==
    /\ pseudocode \in Texts
    /\ caller = "none"
    /\ preview = FALSE
    /\ pc = "idle"
    /\ unknown_components = {}
    /\ line_no = 0
    /\ components = <<>>
    /\ name_to_component = <<>>
    /\ cleaned_components = <<>>
    /\ response = "none"
    /\ archive = <<>>
    /\ first_document = <<>>
    /\ requests = <<>>

(* app.py: index *)

\* a GET request: the page alone
IndexGet ==
    /\ pc = "idle"
    /\ caller' = "index"
    /\ pc' = "done"
    /\ response' = "page"
    /\ UNCHANGED <<archive, first_document, requests>>
    /\ UNCHANGED <<pseudocode, preview, unknown_components, line_no, components,
                   name_to_component, cleaned_components>>

\* a POST request, up to the detector's result
IndexPost ==
    /\ pc = "idle"
    /\ \E p \in BOOLEAN : preview' = p
    /\ caller' = "index"
    /\ unknown_components' = find_unknown_components(pseudocode)
    /\ pc' = "detected"
    /\ UNCHANGED <<archive, first_document, requests>>
    /\ UNCHANGED <<pseudocode, line_no, components, name_to_component,
                   cleaned_components, response>>

\* if 'preview_scm' in request.form: generate_screen1_scm is called
IndexPreview ==
    /\ pc = "detected"
    /\ preview
    /\ pc' = "parsing"
    /\ UNCHANGED <<archive, first_document, requests>>
    /\ UNCHANGED <<pseudocode, caller, preview, unknown_components, line_no,
                   components, name_to_component, cleaned_components, response>>

\* if unknown_components: the page with the warning is returned
IndexWarn ==
    /\ pc = "detected"
    /\ ~preview
    /\ unknown_components # {}
    /\ pc' = "done"
    /\ response' = "warning"
    /\ UNCHANGED <<archive, first_document, requests>>
    /\ UNCHANGED <<pseudocode, caller, preview, unknown_components, line_no,
                   components, name_to_component, cleaned_components>>

\* otherwise generate_aia_from_pseudocode is called
IndexCompile ==
    /\ pc = "detected"
    /\ ~preview
    /\ unknown_components = {}
    /\ pc' = "parsing"
    /\ UNCHANGED <<archive, first_document, requests>>
    /\ UNCHANGED <<pseudocode, caller, preview, unknown_components, line_no,
                   components, name_to_component, cleaned_components, response>>

\* generate_aia_from_pseudocode called by another caller than index
DirectCompile ==
    /\ pc = "idle"
    /\ caller' = "direct"
    /\ pc' = "parsing"
    /\ UNCHANGED <<archive, first_document, requests>>
    /\ UNCHANGED <<pseudocode, preview, unknown_components, line_no,
                   components, name_to_component, cleaned_components, response>>

(* aia_generator.py: parse_pseudocode *)

\* one turn of the loop up to its first matching pattern: the line is
\* stripped and the patterns are tried in the order of the source
Classify(rawline) ==
    LET line == strip(rawline)
    IN  IF MatchAddButton(line).matched
        THEN [stmt |-> "AddButton", m |-> MatchAddButton(line)]
        ELSE IF MatchAddLabel(line).matched
        THEN [stmt |-> "AddLabel", m |-> MatchAddLabel(line)]
        ELSE IF MatchSetText(line).matched
        THEN [stmt |-> "SetText", m |-> MatchSetText(line)]
        ELSE IF MatchSetWidth(line).matched
        THEN [stmt |-> "SetWidth", m |-> MatchSetWidth(line)]
        ELSE IF MatchSetHeight(line).matched
        THEN [stmt |-> "SetHeight", m |-> MatchSetHeight(line)]
        ELSE [stmt |-> "none", m |-> NoMatch]

\* Classify, worked out once for each line of InputLines
Classified == [l \in InputLines |-> Classify(l)]

\* the statement the loop is at
Current == Classified[pseudocode[line_no + 1]]

InLoop == pc = "parsing" /\ line_no < Len(pseudocode)

\* name_to_component[name] = the dict appended last
Bind(refs, name, pos) ==
    [n \in DOMAIN refs \cup {name} |-> IF n = name THEN pos ELSE refs[n]]

\* Declare as components.insert(0, comp): the new dict goes first
DeclareFirst(comp) ==
    /\ components' = <<comp>> \o components
    /\ name_to_component' =
           Bind([n \in DOMAIN name_to_component |-> name_to_component[n] + 1],
                comp["$Name"], 1)

\* components.append(comp); name_to_component[name] = comp
Declare(comp) ==
    /\ components' = Append(components, comp)
    /\ name_to_component' = Bind(name_to_component, comp["$Name"], Len(components) + 1)

\* TryStoreInt with a default of 0 for a value without digits
TryStoreIntOrZero(comps, refs, name, key, raw) ==
    LET m == SearchDigits(raw)
    IN  IF name \notin DOMAIN refs
        THEN [components |-> comps, exc |-> "KeyError"]
        ELSE [components |-> [comps EXCEPT ![refs[name]] =
                                 SetItem(@, key, IF m.matched THEN int(m.group1) ELSE 0)],
              exc |-> "none"]

\* the body of a try block of the Width and Height statements:
\*     val = int(re.search(r'(\d+)', raw).group(1))
\*     name_to_component[name][key] = val
\* with the exception it ends in
TryStoreInt(comps, refs, name, key, raw) ==
    LET m == SearchDigits(raw)
    IN  IF ~m.matched
        THEN [components |-> comps, exc |-> "AttributeError"]
        ELSE IF name \notin DOMAIN refs
        THEN [components |-> comps, exc |-> "KeyError"]
        ELSE [components |-> [comps EXCEPT ![refs[name]] = SetItem(@, key, int(m.group1))],
              exc |-> "none"]

\* the handler as except AttributeError: pass, which lets a KeyError through
ExceptAttributeError(r) ==
    IF r.exc = "AttributeError" THEN [r EXCEPT !.exc = "none"] ELSE r

\* except: pass
ExceptPass(r) == [r EXCEPT !.exc = "none"]

\* StoreText that declares a Label for a name it does not know
StoreTextOrCreate(comps, refs, name, text) ==
    IF name \in DOMAIN refs
    THEN [comps EXCEPT ![refs[name]] = SetItem(@, "Text", text)]
    ELSE Append(comps, SetItem(LabelComponent(name), "Text", text))

\* the statement Set <name>.Text: lines 34-37
StoreText(comps, refs, name, text) ==
    IF name \in DOMAIN refs
    THEN [comps EXCEPT ![refs[name]] = SetItem(@, "Text", text)]
    ELSE comps

\* the key a Set <name>.Width statement stores under: line 45
WidthKey(width) ==
    IF Contains(lower(width), <<"p", "e", "r", "c", "e", "n", "t">>) THEN "WidthPercent" ELSE "Width"

\* StoreWidth that keeps the two widths exclusive while it parses: storing
\* one of the keys deletes the other
StoreWidthExclusive(comps, refs, name, width) ==
    IF name \in DOMAIN refs
    THEN LET r     == ExceptPass(TryStoreInt(comps, refs, name, WidthKey(width), width))
             other == IF WidthKey(width) = "Width" THEN "WidthPercent" ELSE "Width"
         IN  IF r.components = comps THEN r
             ELSE [r EXCEPT !.components[refs[name]] = DelItem(@, other)]
    ELSE [components |-> comps, exc |-> "none"]

\* the statement Set <name>.Width: lines 42-56
StoreWidth(comps, refs, name, width) ==
    IF name \in DOMAIN refs
    THEN ExceptPass(TryStoreInt(comps, refs, name, WidthKey(width), width))
    ELSE [components |-> comps, exc |-> "none"]

\* the statement Set <name>.Height: lines 61-67
StoreHeight(comps, refs, name, height) ==
    ExceptPass(TryStoreInt(comps, refs, name, "Height", height))

\* the loop goes on with the next line, or an exception leaves
\* parse_pseudocode and its callers: index answers with the error page
Continue(exc) ==
    IF exc = "none"
    THEN /\ line_no' = line_no + 1
         /\ UNCHANGED <<pc, response>>
    ELSE /\ pc' = "done"
         /\ response' = IF caller = "index" THEN "error_page" ELSE "exception"
         /\ UNCHANGED line_no

AddButton ==
    /\ InLoop
    /\ Current.stmt = "AddButton"
    /\ Declare(ButtonComponent(Current.m.group1))
    /\ Continue("none")
    /\ UNCHANGED <<archive, first_document, requests>>
    /\ UNCHANGED <<pseudocode, caller, preview, unknown_components, cleaned_components>>

AddLabel ==
    /\ InLoop
    /\ Current.stmt = "AddLabel"
    /\ Declare(LabelComponent(Current.m.group1))
    /\ Continue("none")
    /\ UNCHANGED <<archive, first_document, requests>>
    /\ UNCHANGED <<pseudocode, caller, preview, unknown_components, cleaned_components>>

SetText ==
    /\ InLoop
    /\ Current.stmt = "SetText"
    /\ LET m == Current.m
       IN  components' = StoreText(components, name_to_component, m.group1, m.group2)
    /\ Continue("none")
    /\ UNCHANGED <<archive, first_document, requests>>
    /\ UNCHANGED <<pseudocode, caller, preview, unknown_components,
                   name_to_component, cleaned_components>>

SetWidth ==
    /\ InLoop
    /\ Current.stmt = "SetWidth"
    /\ LET m == Current.m
           r == StoreWidth(components, name_to_component, m.group1, m.group2)
       IN  /\ components' = r.components
           /\ Continue(r.exc)
    /\ UNCHANGED <<archive, first_document, requests>>
    /\ UNCHANGED <<pseudocode, caller, preview, unknown_components,
                   name_to_component, cleaned_components>>

SetHeight ==
    /\ InLoop
    /\ Current.stmt = "SetHeight"
    /\ LET m == Current.m
           r == StoreHeight(components, name_to_component, m.group1, m.group2)
       IN  /\ components' = r.components
           /\ Continue(r.exc)
    /\ UNCHANGED <<archive, first_document, requests>>
    /\ UNCHANGED <<pseudocode, caller, preview, unknown_components,
                   name_to_component, cleaned_components>>

\* a line no pattern matches
SkipLine ==
    /\ InLoop
    /\ Current.stmt = "none"
    /\ Continue("none")
    /\ UNCHANGED <<archive, first_document, requests>>
    /\ UNCHANGED <<pseudocode, caller, preview, unknown_components, components,
                   name_to_component, cleaned_components>>

(* aia_generator.py: generate_screen1_scm, after parse_pseudocode *)

\* CleanComponent without the del of line 129
CleanComponentKeepWidth(comp, uuid) ==
    SetItem(SetItem(comp, "$Version", "7"), "Uuid", uuid)

\* one turn of the cleaning loop: lines 127-132
CleanComponent(comp, uuid) ==
    LET kept == IF "WidthPercent" \in DOMAIN comp /\ "Width" \in DOMAIN comp
                THEN DelItem(comp, "Width")
                ELSE comp
    IN  SetItem(SetItem(kept, "$Version", "7"), "Uuid", uuid)

\* InjectDefaults with the test of line 139 repeated at line 153
InjectDefaultsSameTest(cleaned) ==
    LET user_component_names == { cleaned[k]["$Name"] : k \in DOMAIN cleaned }
    IN  IF StatusLabelName \notin user_component_names
        THEN cleaned \o <<status_label, reset_button>>
        ELSE cleaned

\* user_component_names and the two appends: lines 136-166
InjectDefaults(cleaned) ==
    LET user_component_names == { cleaned[k]["$Name"] : k \in DOMAIN cleaned }
        with_status == IF StatusLabelName \notin user_component_names
                       THEN Append(cleaned, status_label)
                       ELSE cleaned
    IN  IF ResetButtonName \notin user_component_names
        THEN Append(with_status, reset_button)
        ELSE with_status

\* project_name of generate_aia_from_pseudocode
project_name == "ButtonApp"

\* screen_data and the scm text of generate_screen1_scm: the wrapper
\* "#|$JSON\n" + json_block + "|#" around the document, which stands for
\* its JSON text
Screen1Scm(name, cleaned) ==
    << "#|$JSON\n",
       [authURL    |-> <<"ai2.appinventor.mit.edu">>,
        YaVersion  |-> "232",
        Source     |-> "Form",
        Properties |->
            [k \in {"$Name", "$Type", "$Version", "Title", "Uuid", "AppName",
                    "AlignHorizontal", "AlignVertical", "BackgroundColor",
                    "$Components"} |->
                CASE k = "$Name" -> "Screen1"
                  [] k = "$Type" -> "Form"
                  [] k = "$Version" -> "31"
                  [] k = "Title" -> "12 Button App"
                  [] k = "Uuid" -> "0"
                  [] k = "AppName" -> name
                  [] k = "AlignHorizontal" -> 3
                  [] k = "AlignVertical" -> 2
                  [] k = "BackgroundColor" -> -3355444
                  [] k = "$Components" -> cleaned]],
       "|#" >>

\* generate_screen1_bky
generate_screen1_bky(name) == "{\n  \"blocks\": []\n}"

\* project_properties of generate_aia_from_pseudocode: its lines, a line
\* key=value as <<key, value>>, a value with the project name in it as
\* its pieces
project_properties(name) ==
    << <<"#Sat Jul 19 20:00:00 UTC 2025">>,
       <<"sizing", "Responsive">>,
       <<"color.primary.dark", "&HFF303F9F">>,
       <<"color.primary", "&HFF3F51B5">>,
       <<"color.accent", "&HFFFF4081">>,
       <<"aname", name>>,
       <<"defaultfilescope", "App">>,
       <<"main", <<"appinventor.ai_user.", name, ".Screen1">> >>,
       <<"source", "../src">>,
       <<"actionbar", "True">>,
       <<"useslocation", "False">>,
       <<"assets", "../assets">>,
       <<"build", "../build">>,
       <<"name", name>>,
       <<"showlistsasjson", "True">>,
       <<"theme", "AppTheme.Light.DarkActionBar">>,
       <<"versioncode", "1">>,
       <<"versionname", "1.0">> >>

\* youngandroid_project_properties of generate_aia_from_pseudocode
youngandroid_project_properties(name) ==
    << <<"#|$YOUNG_ANDROID_PROJECT_PROPERTIES$|#">>,
       <<"project", name>>,
       <<"main", "Screen1">>,
       <<"usesLocation", "false">>,
       <<"assets", "">>,
       <<"source", "">>,
       <<"scm", "">>,
       <<"extension", "">>,
       <<"build", "">>,
       <<"version", "1">> >>

\* ZipEntries without the blocks file
ZipEntriesNoBky(name, scm) ==
    << << <<"project.properties">>, project_properties(name) >>,
       << <<"youngandroidproject", "project.properties">>,
          youngandroid_project_properties(name) >>,
       << <<"src", name, "Screen1.scm">>, scm >> >>

\* the four zf.writestr calls of generate_aia_from_pseudocode: the entries
\* as <<path, content>>, a path as its segments
ZipEntries(name, scm) ==
    << << <<"project.properties">>, project_properties(name) >>,
       << <<"youngandroidproject", "project.properties">>,
          youngandroid_project_properties(name) >>,
       << <<"src", name, "Screen1.scm">>, scm >>,
       << <<"src", name, "Screen1.bky">>, generate_screen1_bky(name) >> >>

\* the loop of parse_pseudocode is over: the components are cleaned, the
\* defaults injected and the document goes back to the caller, as the
\* preview or inside the archive
Synthesize ==
    /\ pc = "parsing"
    /\ line_no = Len(pseudocode)
    /\ \E uuids \in [DOMAIN components -> UuidValues] :
         /\ components' = [k \in DOMAIN components |-> CleanComponent(components[k], uuids[k])]
         /\ cleaned_components' = InjectDefaults(components')
    /\ pc' = "done"
    /\ response' = IF caller = "index" /\ preview THEN "preview" ELSE "archive"
    /\ archive' = IF caller = "index" /\ preview
                  THEN <<>>
                  ELSE ZipEntries(project_name, Screen1Scm(project_name, cleaned_components'))
    /\ UNCHANGED <<first_document, requests>>
    /\ UNCHANGED <<pseudocode, caller, preview, unknown_components, line_no,
                   name_to_component>>

(* A caller that compiles the same text a second time *)

\* a list of component dicts without the Uuid fields
WithoutUuid(comps) == [k \in DOMAIN comps |-> DelItem(comps[k], "Uuid")]

\* the second call with components and name_to_component kept at module
\* level: the call starts from what the first one left
CompileAgainKeeping ==
    /\ pc = "done"
    /\ caller = "direct"
    /\ response = "archive"
    /\ first_document = <<>>
    /\ first_document' = WithoutUuid(cleaned_components)
    /\ pc' = "parsing"
    /\ line_no' = 0
    /\ cleaned_components' = <<>>
    /\ response' = "none"
    /\ archive' = <<>>
    /\ UNCHANGED <<components, name_to_component>>
    /\ UNCHANGED <<pseudocode, caller, preview, unknown_components, requests>>

\* generate_aia_from_pseudocode is called again with the same text: the
\* call makes its own components, name_to_component and cleaned_components
CompileAgain ==
    /\ pc = "done"
    /\ caller = "direct"
    /\ response = "archive"
    /\ first_document = <<>>
    /\ first_document' = WithoutUuid(cleaned_components)
    /\ pc' = "parsing"
    /\ line_no' = 0
    /\ components' = <<>>
    /\ name_to_component' = <<>>
    /\ cleaned_components' = <<>>
    /\ response' = "none"
    /\ archive' = <<>>
    /\ UNCHANGED <<pseudocode, caller, preview, unknown_components, requests>>

Next ==
    \/ IndexGet
    \/ IndexPost
    \/ IndexPreview
    \/ IndexWarn
    \/ IndexCompile
    \/ DirectCompile
    \/ AddButton
    \/ AddLabel
    \/ SetText
    \/ SetWidth
    \/ SetHeight
    \/ SkipLine
    \/ Synthesize

Spec == Init /\ [][Next]_vars

\* the calls of a caller that compiles its text twice
NextTwice ==
    \/ DirectCompile
    \/ AddButton
    \/ AddLabel
    \/ SetText
    \/ SetWidth
    \/ SetHeight
    \/ SkipLine
    \/ Synthesize
    \/ CompileAgain

SpecTwice == Init /\ [][NextTwice]_vars

(* find_unknown_components on the texts of DetectTexts *)

\* the state before a request whose pseudocode is one of DetectTexts
InitDetect ==
    /\ pseudocode \in DetectTexts
    /\ caller = "none"
    /\ preview = FALSE
    /\ pc = "idle"
    /\ unknown_components = {}
    /\ line_no = 0
    /\ components = <<>>
    /\ name_to_component = <<>>
    /\ cleaned_components = <<>>
    /\ response = "none"
    /\ archive = <<>>
    /\ first_document = <<>>
    /\ requests = <<>>

\* index up to the warning page
NextDetect ==
    \/ IndexPost
    \/ IndexWarn

SpecDetect == InitDetect /\ [][NextDetect]_vars

(* Two requests served at the same time: each is a call of                 *)
(* generate_screen1_scm with its own text                                  *)

\* the longest pseudocode of a request, in lines
MaxConcurrentLines == 2

\* the lines of the texts of the two requests
ConcurrentLines ==
    { <<"A", "d", "d", " ", "B", "u", "t", "t", "o", "n", " ", "(", "N", "a", "m", "e", ":", " ", "G", "o", ")">>,
      <<"A", "d", "d", " ", "L", "a", "b", "e", "l", " ", "(", "N", "a", "m", "e", ":", " ", "S", "t", "a", "t", "u", "s", "L", "a", "b", "e", "l", ")">>,
      <<"S", "e", "t", " ", "G", "o", ".", "T", "e", "x", "t", " ", "t", "o", " ", "\"", "S", "t", "a", "r", "t", "\"">>,
      <<"S", "e", "t", " ", "G", "o", ".", "W", "i", "d", "t", "h", " ", "t", "o", " ", "1", "2", "0", "p", "x">> }

ConcurrentTexts == UNION { [1..n -> ConcurrentLines] : n \in 0..MaxConcurrentLines }

\* one turn of the loop of parse_pseudocode, on the components and the
\* name_to_component of the call that makes it
ApplyLine(comps, refs, rawline) ==
    LET stmt == Classified[rawline].stmt
        m    == Classified[rawline].m
    IN  CASE stmt = "AddButton" ->
               [components        |-> Append(comps, ButtonComponent(m.group1)),
                name_to_component |-> Bind(refs, m.group1, Len(comps) + 1),
                exc               |-> "none"]
          [] stmt = "AddLabel" ->
               [components        |-> Append(comps, LabelComponent(m.group1)),
                name_to_component |-> Bind(refs, m.group1, Len(comps) + 1),
                exc               |-> "none"]
          [] stmt = "SetText" ->
               [components        |-> StoreText(comps, refs, m.group1, m.group2),
                name_to_component |-> refs,
                exc               |-> "none"]
          [] stmt = "SetWidth" ->
               [components        |-> StoreWidth(comps, refs, m.group1, m.group2).components,
                name_to_component |-> refs,
                exc               |-> StoreWidth(comps, refs, m.group1, m.group2).exc]
          [] stmt = "SetHeight" ->
               [components        |-> StoreHeight(comps, refs, m.group1, m.group2).components,
                name_to_component |-> refs,
                exc               |-> StoreHeight(comps, refs, m.group1, m.group2).exc]
          [] OTHER ->
               [components |-> comps, name_to_component |-> refs, exc |-> "none"]

\* the request before its call
NewRequest(text) ==
    [pseudocode         |-> text,
     pc                 |-> "idle",
     line_no            |-> 0,
     components         |-> <<>>,
     name_to_component  |-> <<>>,
     cleaned_components |-> <<>>]

\* Locals with components and name_to_component at module level: every
\* call works on the list and the dict of the first
LocalsOfFirst(reqs, r) ==
    [reqs[r] EXCEPT !.components = reqs[1].components,
                    !.name_to_component = reqs[1].name_to_component]

\* the local variables of the call of request r: components and
\* name_to_component are made by the call itself
Locals(reqs, r) == reqs[r]

InitConcurrent ==
    /\ pseudocode = <<>>
    /\ caller = "none"
    /\ preview = FALSE
    /\ pc = "idle"
    /\ unknown_components = {}
    /\ line_no = 0
    /\ components = <<>>
    /\ name_to_component = <<>>
    /\ cleaned_components = <<>>
    /\ response = "none"
    /\ archive = <<>>
    /\ first_document = <<>>
    /\ requests \in { reqs \in [1..2 -> { NewRequest(text) : text \in ConcurrentTexts }] :
                        reqs[1].pseudocode # reqs[2].pseudocode }

OthersUnchanged ==
    UNCHANGED <<pseudocode, caller, preview, pc, unknown_components, line_no,
                components, name_to_component, cleaned_components, response,
                archive, first_document>>

\* a request calls parse_pseudocode: components = [], name_to_component = {}
Call ==
  \E r \in DOMAIN requests :
    /\ requests[r].pc = "idle"
    /\ requests' = [requests EXCEPT ![r].pc = "parsing",
                                    ![r].components = <<>>,
                                    ![r].name_to_component = <<>>]
    /\ OthersUnchanged

\* the call of a request takes one turn of its loop
ParseLine ==
  \E r \in DOMAIN requests :
    /\ requests[r].pc = "parsing"
    /\ requests[r].line_no < Len(requests[r].pseudocode)
    /\ LET loc == Locals(requests, r)
           res == ApplyLine(loc.components, loc.name_to_component,
                            loc.pseudocode[loc.line_no + 1])
       IN  requests' = [requests EXCEPT ![r] =
               [loc EXCEPT !.components = res.components,
                           !.name_to_component = res.name_to_component,
                           !.line_no = IF res.exc = "none" THEN @ + 1 ELSE @,
                           !.pc = IF res.exc = "none" THEN @ ELSE "failed"]]
    /\ OthersUnchanged

\* the loop of a request is over: cleaning and the two default components
Finish ==
  \E r \in DOMAIN requests :
    /\ requests[r].pc = "parsing"
    /\ requests[r].line_no = Len(requests[r].pseudocode)
    /\ LET loc == Locals(requests, r)
       IN  \E uuids \in [DOMAIN loc.components -> UuidValues] :
             LET cleaned == [k \in DOMAIN loc.components |->
                                CleanComponent(loc.components[k], uuids[k])]
             IN  requests' = [requests EXCEPT ![r] =
                     [loc EXCEPT !.components = cleaned,
                                 !.cleaned_components = InjectDefaults(cleaned),
                                 !.pc = "done"]]
    /\ OthersUnchanged

NextConcurrent ==
    \/ Call
    \/ ParseLine
    \/ Finish

SpecConcurrent == InitConcurrent /\ [][NextConcurrent]_vars

(* The claims *)

\* a compilation has returned its document
Finished == pc = "done" /\ response \in {"preview", "archive"}

\* the names of a list of component dicts
NamesOf(comps) == [k \in DOMAIN comps |-> comps[k]["$Name"]]

\* the names the Add statements of the first n lines declare, in order
RECURSIVE AddedNames(_)
AddedNames(n) ==
    IF n = 0 THEN <<>>
    ELSE LET c == Classified[pseudocode[n]]
         IN  IF c.stmt \in {"AddButton", "AddLabel"}
             THEN Append(AddedNames(n - 1), c.m.group1)
             ELSE AddedNames(n - 1)

\* s without the repetitions of its entries: the first of each stays
RECURSIVE FirstOnly(_)
FirstOnly(s) ==
    IF s = <<>> THEN <<>>
    ELSE LET init == FirstOnly(SubSeq(s, 1, Len(s) - 1))
         IN  IF s[Len(s)] \in Range(init) THEN init ELSE Append(init, s[Len(s)])

\* the entries of the final list that the Default Injector made
IsSynthesized(comp) == comp \in {status_label, reset_button}

\* the loop is at a statement of one of the kinds, whose name is declared or not
AtStatement(kinds) == InLoop /\ Current.stmt \in kinds

TargetDeclared == Current.m.group1 \in DOMAIN name_to_component

\* the value of a Width or Height statement holds no digit
NoDigit(value) == \A k \in DOMAIN value : value[k] \notin Range(DigitChars)

\* C1: the final component list holds at most one descriptor per name.
C1_NameUnique ==
    Finished =>
        \A i, j \in DOMAIN cleaned_components :
            cleaned_components[i]["$Name"] = cleaned_components[j]["$Name"] => i = j

\* C2: no component of the final document, declared or synthesized, carries
\* both Width and WidthPercent; a component that had accumulated both when
\* the parsing ended keeps its WidthPercent and loses its Width.
C2_WidthExclusive ==
    /\ [](\A k \in DOMAIN cleaned_components :
            ~({"Width", "WidthPercent"} \subseteq DOMAIN cleaned_components[k]))
    /\ [][pc = "parsing" /\ pc' = "done" /\ Finished' =>
            \A k \in DOMAIN components :
                {"Width", "WidthPercent"} \subseteq DOMAIN components[k] =>
                    /\ "Width" \notin DOMAIN cleaned_components'[k]
                    /\ "WidthPercent" \in DOMAIN cleaned_components'[k]
                    /\ cleaned_components'[k]["WidthPercent"] = components[k]["WidthPercent"]]_vars

\* C2 witness: a declared Label, created with Width, ends with the
\* WidthPercent a Set statement gave it.
C2_Witness ==
    /\ Finished
    /\ \E k \in DOMAIN components :
        /\ cleaned_components[k]["$Type"] = "Label"
        /\ "WidthPercent" \in DOMAIN cleaned_components[k]
        /\ cleaned_components[k]["WidthPercent"] = 50

\* C3: no input makes the compilation raise or stop before its end; the
\* final list holds the declared components followed by the synthesized
\* sentinels, a sentinel being synthesized exactly when no declared
\* component has its name, StatusLabel before ResetButton; so both names
\* are in the list.
C3_Sentinels ==
    /\ response \notin {"error_page", "exception"}
    /\ pc = "parsing" => ENABLED Next
    /\ Finished =>
        LET declared == { components[k]["$Name"] : k \in DOMAIN components }
            tail     == SubSeq(cleaned_components, Len(components) + 1,
                               Len(cleaned_components))
        IN  /\ SubSeq(cleaned_components, 1, Len(components)) = components
            /\ \A k \in DOMAIN components : ~IsSynthesized(components[k])
            /\ tail = SelectSeq(<<status_label, reset_button>>,
                                LAMBDA c : c["$Name"] \notin declared)
            /\ {StatusLabelName, ResetButtonName} \subseteq Range(NamesOf(cleaned_components))

\* C3 witness: a text with a line no pattern matches, a dangling Set and a
\* value without digits ends with the declared StatusLabel followed by the
\* synthesized ResetButton alone.
C3_Witness ==
    /\ Finished
    /\ response = "archive"
    /\ pseudocode = << <<"A", "d", "d", " ", "W", "i", "d", "g", "e", "t", " ", "(", "N", "a", "m", "e", ":", " ", "W", ")">>, <<"A", "d", "d", " ", "L", "a", "b", "e", "l", " ", "(", "N", "a", "m", "e", ":", " ", "S", "t", "a", "t", "u", "s", "L", "a", "b", "e", "l", ")">>,
                       <<"S", "e", "t", " ", "G", "o", ".", "H", "e", "i", "g", "h", "t", " ", "t", "o", " ", "t", "a", "l", "l">> >>
    /\ Len(cleaned_components) = 2
    /\ cleaned_components[1]["$Name"] = StatusLabelName
    /\ ~IsSynthesized(cleaned_components[1])
    /\ cleaned_components[2] = reset_button

\* C4: the declared components of the final list are in the order in which
\* their names were first introduced by an Add statement, each name once,
\* and every injected default comes after them.
C4_DeclarationOrder ==
    Finished =>
        \E n \in 0..Len(cleaned_components) :
            /\ NamesOf(SubSeq(cleaned_components, 1, n)) = FirstOnly(AddedNames(Len(pseudocode)))
            /\ \A k \in 1..n : ~IsSynthesized(cleaned_components[k])
            /\ \A k \in (n + 1)..Len(cleaned_components) : IsSynthesized(cleaned_components[k])

\* C5: an Add statement whose name is already declared changes neither the
\* component sequence nor the descriptor the name stands for.
C5_RedeclareNoOp ==
    [][AtStatement({"AddButton", "AddLabel"}) /\ TargetDeclared =>
           /\ components' = components
           /\ name_to_component' = name_to_component]_vars

\* C6: a Set statement (Text, Width or Height) whose target has not been
\* declared leaves the components and the lookup as they are and raises
\* nothing, the loop going on with the next line; a name that no Add
\* statement declares has no declared component in the output, and the text
\* Set Ghost.Text to "X" yields the two sentinel defaults alone.
C6_DanglingSet ==
    /\ [][AtStatement({"SetText", "SetWidth", "SetHeight"}) /\ ~TargetDeclared =>
             /\ components' = components
             /\ name_to_component' = name_to_component
             /\ cleaned_components' = cleaned_components
             /\ pc' = "parsing"
             /\ response' = "none"
             /\ line_no' = line_no + 1]_vars
    /\ [](Finished =>
            /\ \A k \in DOMAIN cleaned_components :
                   \/ IsSynthesized(cleaned_components[k])
                   \/ cleaned_components[k]["$Name"] \in Range(AddedNames(Len(pseudocode)))
            /\ pseudocode = << <<"S", "e", "t", " ", "G", "h", "o", "s", "t", ".", "T", "e", "x", "t", " ", "t", "o", " ", "\"", "X", "\"">> >> =>
                   cleaned_components = <<status_label, reset_button>>)

\* C6 witness: the loop has passed a Set Height statement on a name that was
\* not declared, with a value that holds an integer.
C6_Witness ==
    /\ pc = "parsing"
    /\ line_no >= 1
    /\ Classified[pseudocode[line_no]].stmt = "SetHeight"
    /\ ~NoDigit(Classified[pseudocode[line_no]].m.group2)
    /\ Classified[pseudocode[line_no]].m.group1 \notin DOMAIN name_to_component
    /\ components # <<>>

\* C7: a Set X.Width on a declared X whose value holds a percent indicator,
\* the token percent in any letter case or a % sign, and an integer stores
\* the first integer as the WidthPercent of X.
C7_PercentIndicator ==
    [][/\ AtStatement({"SetWidth"})
       /\ TargetDeclared
       /\ ~NoDigit(Current.m.group2)
       /\ \/ Contains(lower(Current.m.group2), <<"p", "e", "r", "c", "e", "n", "t">>)
          \/ Contains(Current.m.group2, <<"%">>)
       =>
       LET X == components'[name_to_component[Current.m.group1]]
       IN  /\ "WidthPercent" \in DOMAIN X
           /\ X["WidthPercent"] = int(SearchDigits(Current.m.group2).group1)]_vars

\* C8: a Set X.Width or Set X.Height on a declared X whose value holds no
\* integer changes no descriptor and raises nothing.
C8_ValueParseFailure ==
    [][AtStatement({"SetWidth", "SetHeight"}) /\ TargetDeclared /\ NoDigit(Current.m.group2) =>
           /\ components' = components
           /\ name_to_component' = name_to_component
           /\ cleaned_components' = cleaned_components
           /\ pc' = "parsing"
           /\ response' = "none"
           /\ line_no' = line_no + 1]_vars

\* C8 witness: the loop has passed a Width statement without digits on a
\* declared name, after a Width statement that did set a value.
C8_Witness ==
    /\ pc = "parsing"
    /\ line_no = 3
    /\ Classified[pseudocode[2]].stmt = "SetWidth"
    /\ ~NoDigit(Classified[pseudocode[2]].m.group2)
    /\ Classified[pseudocode[3]].stmt = "SetWidth"
    /\ NoDigit(Classified[pseudocode[3]].m.group2)
    /\ Classified[pseudocode[3]].m.group1 \in DOMAIN name_to_component
    /\ "WidthPercent" \in DOMAIN components[1]
    /\ components[1]["WidthPercent"] = 50

\* C9: a request that is no preview and whose text makes the detector
\* return a non-empty set ends with the archive.
C9_DetectorAdvisory ==
    pc = "done" /\ caller = "index" /\ ~preview /\ unknown_components # {} =>
        response = "archive"

\* C10: the detector reports no name that the text declares with a
\* recognized Add statement.
C10_DeclaredNotReported ==
    caller = "index" =>
        unknown_components \cap Range(AddedNames(Len(pseudocode))) = {}

\* the Add statements of the first n lines, each as <<name, kind>>, in order
RECURSIVE AddedKinds(_)
AddedKinds(n) ==
    IF n = 0 THEN <<>>
    ELSE LET c == Classified[pseudocode[n]]
         IN  IF c.stmt = "AddButton" THEN Append(AddedKinds(n - 1), <<c.m.group1, "Button">>)
             ELSE IF c.stmt = "AddLabel" THEN Append(AddedKinds(n - 1), <<c.m.group1, "Label">>)
             ELSE AddedKinds(n - 1)

\* the entries of the final list that the Default Injector did not make
DeclaredFinal == SelectSeq(cleaned_components, LAMBDA c : ~IsSynthesized(c))

\* C14: the descriptors of the final document that are no synthesized
\* sentinel are those the Add statements of the text created, one for each
\* statement, with its name and kind; a text without a matching Add
\* statement yields the two sentinel defaults and nothing else.
C14_OnlyAddCreates ==
    Finished =>
        /\ [k \in DOMAIN DeclaredFinal |->
               <<DeclaredFinal[k]["$Name"], DeclaredFinal[k]["$Type"]>>]
             = AddedKinds(Len(pseudocode))
        /\ AddedKinds(Len(pseudocode)) = <<>> =>
               cleaned_components = <<status_label, reset_button>>

\* C14 witness: a text of three lines, a Set Text, a Set Height and a line
\* no pattern matches, has ended with the two defaults alone.
C14_Witness ==
    /\ Finished
    /\ Len(pseudocode) = 3
    /\ \E k \in 1..3 : Classified[pseudocode[k]].stmt = "SetText"
    /\ \E k \in 1..3 : Classified[pseudocode[k]].stmt = "SetHeight"
    /\ \E k \in 1..3 : Classified[pseudocode[k]].stmt = "none"
    /\ cleaned_components = <<status_label, reset_button>>

\* the lines at which an Add statement declares name
AddLinesOf(name) ==
    { k \in DOMAIN pseudocode :
        /\ Classified[pseudocode[k]].stmt \in {"AddButton", "AddLabel"}
        /\ Classified[pseudocode[k]].m.group1 = name }

\* the lines after line k at which a Set Text statement targets name
SetTextLinesAfter(name, k) ==
    { j \in DOMAIN pseudocode :
        /\ j > k
        /\ Classified[pseudocode[j]].stmt = "SetText"
        /\ Classified[pseudocode[j]].m.group1 = name }

Min(S) == CHOOSE a \in S : \A b \in S : a <= b

Max(S) == CHOOSE a \in S : \A b \in S : a >= b

\* the Text the claim gives a declared name: the value of the last Set Text
\* after its first Add, or the name
ExpectedText(name) ==
    LET sets == SetTextLinesAfter(name, Min(AddLinesOf(name)))
    IN  IF sets = {} THEN name ELSE Classified[pseudocode[Max(sets)]].m.group2

\* C16: the final Text of a declared component X is the value of the last
\* Set X.Text statement after the first Add of X, or the name X when there
\* is none; a Set statement before the Add has no effect on X.
C16_TextFollowsLastSet ==
    Finished =>
        \A k \in DOMAIN DeclaredFinal :
            DeclaredFinal[k]["Text"] = ExpectedText(DeclaredFinal[k]["$Name"])

\* the entries of the final list with a name
FinalNamed(name) ==
    { k \in DOMAIN cleaned_components : cleaned_components[k]["$Name"] = name }

\* the values of the keys of an entry
HasItems(comp, items) ==
    \A key \in DOMAIN items : key \in DOMAIN comp /\ comp[key] = items[key]

\* C17: when the text has no Add for StatusLabel (ResetButton) the output
\* holds one descriptor of that name, with the fixed defaults, whatever Set
\* statements target the name; when the text declares the name, every
\* descriptor of that name is a declared one, as the parser left it, of the
\* kind of an Add statement, and no synthesized copy exists.
C17_SentinelDefaults ==
    Finished =>
        /\ AddLinesOf(StatusLabelName) = {} =>
               \E k \in DOMAIN cleaned_components :
                   /\ FinalNamed(StatusLabelName) = {k}
                   /\ cleaned_components[k]["$Type"] = "Label"
                   /\ cleaned_components[k]["Text"] = <<"N", "o", " ", "b", "u", "t", "t", "o", "n", " ", "c", "l", "i", "c", "k", "e", "d", " ", "y", "e", "t">>
                   /\ HasItems(cleaned_components[k],
                               [Width |-> -2, FontSize |-> 18, TextAlignment |-> 1])
                   /\ "WidthPercent" \notin DOMAIN cleaned_components[k]
        /\ AddLinesOf(ResetButtonName) = {} =>
               \E k \in DOMAIN cleaned_components :
                   /\ FinalNamed(ResetButtonName) = {k}
                   /\ cleaned_components[k]["$Type"] = "Button"
                   /\ cleaned_components[k]["Text"] = <<"R", "e", "s", "e", "t">>
                   /\ HasItems(cleaned_components[k],
                               [WidthPercent |-> 80, Height |-> 50, TextColor |-> -1])
        /\ \A name \in {StatusLabelName, ResetButtonName} :
               AddLinesOf(name) # {} =>
                   /\ Cardinality(FinalNamed(name)) = Cardinality(AddLinesOf(name))
                   /\ \A k \in FinalNamed(name) :
                          /\ k \in DOMAIN components
                          /\ cleaned_components[k] = components[k]
                          /\ cleaned_components[k]["Uuid"] \in UuidValues
                          /\ <<name, cleaned_components[k]["$Type"]>>
                                 \in Range(AddedKinds(Len(pseudocode)))
        /\ /\ Cardinality(AddLinesOf(StatusLabelName)) = 1
           /\ \E j \in DOMAIN pseudocode :
                  /\ j > Min(AddLinesOf(StatusLabelName))
                  /\ pseudocode[j] = <<"S", "e", "t", " ", "S", "t", "a", "t", "u", "s", "L", "a", "b", "e", "l", ".", "W", "i", "d", "t", "h", " ", "t", "o", " ", "4", "0", " ", "P", "E", "R", "C", "E", "N", "T">>
           => \A k \in FinalNamed(StatusLabelName) :
                  /\ HasItems(cleaned_components[k], [WidthPercent |-> 40])
                  /\ "Width" \notin DOMAIN cleaned_components[k]

\* C17 witness: the Set on StatusLabel comes before its declaration and is
\* dropped, a second one after it gives the declared Label its WidthPercent,
\* and the ResetButton is the synthesized one.
C17_Witness ==
    /\ Finished
    /\ pseudocode = << <<"S", "e", "t", " ", "S", "t", "a", "t", "u", "s", "L", "a", "b", "e", "l", ".", "W", "i", "d", "t", "h", " ", "t", "o", " ", "4", "0", " ", "P", "E", "R", "C", "E", "N", "T">>,
                       <<"A", "d", "d", " ", "L", "a", "b", "e", "l", " ", "(", "N", "a", "m", "e", ":", " ", "S", "t", "a", "t", "u", "s", "L", "a", "b", "e", "l", ")">>,
                       <<"S", "e", "t", " ", "S", "t", "a", "t", "u", "s", "L", "a", "b", "e", "l", ".", "W", "i", "d", "t", "h", " ", "t", "o", " ", "4", "0", " ", "P", "E", "R", "C", "E", "N", "T">> >>
    /\ Len(cleaned_components) = 2
    /\ cleaned_components[1]["WidthPercent"] = 40
    /\ cleaned_components[2] = reset_button

\* C17 second witness: a Set on the undeclared StatusLabel was dropped and
\* the synthesized Label is in the output.
C17_WitnessDropped ==
    /\ Finished
    /\ pseudocode = << <<"S", "e", "t", " ", "S", "t", "a", "t", "u", "s", "L", "a", "b", "e", "l", ".", "W", "i", "d", "t", "h", " ", "t", "o", " ", "4", "0", " ", "P", "E", "R", "C", "E", "N", "T">> >>
    /\ cleaned_components = <<status_label, reset_button>>

\* a list of component dicts as the identities of its entries
Identities(comps) == [k \in DOMAIN comps |-> <<comps[k]["$Name"], comps[k]["$Type"]>>]

\* C18: a processed line leaves the component sequence as it was or appends
\* one descriptor to it, and the cleaning and the default injection keep
\* every parsed descriptor at its position.
C18_NeverDeletedOrReordered ==
    [][/\ InLoop =>
            \/ Identities(components') = Identities(components)
            \/ /\ Len(components') = Len(components) + 1
               /\ SubSeq(Identities(components'), 1, Len(components)) = Identities(components)
       /\ pc = "parsing" /\ ~InLoop =>
            /\ Len(cleaned_components') >= Len(components)
            /\ SubSeq(Identities(cleaned_components'), 1, Len(components))
                   = Identities(components)]_vars

\* C18 witness: the second of two Add statements has been processed and the
\* first descriptor is still the first.
C18_Witness ==
    /\ pc = "parsing"
    /\ line_no = 2
    /\ Len(components) = 2
    /\ Identities(components) = << <<<<"G", "o">>, "Button">>, <<<<"S", "t", "a", "t", "u", "s", "L", "a", "b", "e", "l">>, "Label">> >>

\* C19: no step removes WidthPercent from a descriptor; a Button has no
\* Width in the final document; a Set X.Width with an absolute value on a
\* Button changes the Width key of X alone, which the final document drops.
C19_WidthPercentStays ==
    /\ [][\A k \in DOMAIN components :
             "WidthPercent" \in DOMAIN components[k] /\ k \in DOMAIN components' =>
                 "WidthPercent" \in DOMAIN components'[k]]_vars
    /\ [][/\ AtStatement({"SetWidth"})
          /\ TargetDeclared
          /\ ~Contains(lower(Current.m.group2), <<"p", "e", "r", "c", "e", "n", "t">>)
          /\ components[name_to_component[Current.m.group1]]["$Type"] = "Button"
          =>
          /\ Len(components') = Len(components)
          /\ \A k \in DOMAIN components :
                 DelItem(components'[k], "Width") = DelItem(components[k], "Width")]_vars
    /\ [](Finished =>
            \A k \in DOMAIN cleaned_components :
                cleaned_components[k]["$Type"] = "Button" =>
                    /\ "Width" \notin DOMAIN cleaned_components[k]
                    /\ "WidthPercent" \in DOMAIN cleaned_components[k])

\* C19 witness: a Button that a Set Width statement gave an absolute value
\* ends with its WidthPercent of 80 and without Width.
C19_Witness ==
    /\ Finished
    /\ pseudocode = << <<"A", "d", "d", " ", "B", "u", "t", "t", "o", "n", " ", "(", "N", "a", "m", "e", ":", " ", "G", "o", ")">>, <<"S", "e", "t", " ", "G", "o", ".", "W", "i", "d", "t", "h", " ", "t", "o", " ", "1", "2", "0", "p", "x">> >>
    /\ "Width" \notin DOMAIN cleaned_components[1]
    /\ cleaned_components[1]["WidthPercent"] = 80

\* C11: the second compilation of a text starts from nothing the first one
\* left and ends with the component list of the first: the same length,
\* order, names, kinds and property values, the Uuid fields left out.
C11_SameTextSameList ==
    first_document # <<>> =>
        /\ pc = "parsing" /\ line_no = 0 =>
               components = <<>> /\ name_to_component = <<>>
        /\ Finished => WithoutUuid(cleaned_components) = first_document

\* C11 witness: the second compilation of a text that declares a component
\* and sets a property of it has ended.
C11_Witness ==
    /\ Finished
    /\ first_document # <<>>
    /\ Len(first_document) = 3
    /\ first_document[1]["Text"] = <<"S", "t", "a", "r", "t">>
    /\ Len(cleaned_components) = 3

\* the fixed entries of the archive
FixedProjectProperties ==
    << <<"#Sat Jul 19 20:00:00 UTC 2025">>,
       <<"sizing", "Responsive">>,
       <<"color.primary.dark", "&HFF303F9F">>,
       <<"color.primary", "&HFF3F51B5">>,
       <<"color.accent", "&HFFFF4081">>,
       <<"aname", "ButtonApp">>,
       <<"defaultfilescope", "App">>,
       <<"main", <<"appinventor.ai_user.", "ButtonApp", ".Screen1">> >>,
       <<"source", "../src">>,
       <<"actionbar", "True">>,
       <<"useslocation", "False">>,
       <<"assets", "../assets">>,
       <<"build", "../build">>,
       <<"name", "ButtonApp">>,
       <<"showlistsasjson", "True">>,
       <<"theme", "AppTheme.Light.DarkActionBar">>,
       <<"versioncode", "1">>,
       <<"versionname", "1.0">> >>

FixedYoungAndroidProperties ==
    << <<"#|$YOUNG_ANDROID_PROJECT_PROPERTIES$|#">>,
       <<"project", "ButtonApp">>,
       <<"main", "Screen1">>,
       <<"usesLocation", "false">>,
       <<"assets", "">>,
       <<"source", "">>,
       <<"scm", "">>,
       <<"extension", "">>,
       <<"build", "">>,
       <<"version", "1">> >>

\* C15: the archive holds four entries, at project.properties,
\* youngandroidproject/project.properties, src/ButtonApp/Screen1.scm and
\* src/ButtonApp/Screen1.bky; the two property files and the blocks file
\* have their fixed content for every text, and Screen1.scm holds the
\* components of the text.
C15_ArchiveLayout ==
    /\ response # "archive" => archive = <<>>
    /\ pc = "done" /\ response = "archive" =>
        /\ [k \in DOMAIN archive |-> archive[k][1]]
             = << <<"project.properties">>,
                  <<"youngandroidproject", "project.properties">>,
                  <<"src", "ButtonApp", "Screen1.scm">>,
                  <<"src", "ButtonApp", "Screen1.bky">> >>
        /\ archive[1][2] = FixedProjectProperties
        /\ archive[2][2] = FixedYoungAndroidProperties
        /\ archive[4][2] = "{\n  \"blocks\": []\n}"
        /\ archive[3][2][2].Properties["$Components"] = cleaned_components

\* C15 witness: the archive of a text that declares a Button, asked for
\* through index.
C15_Witness ==
    /\ pc = "done"
    /\ caller = "index"
    /\ response = "archive"
    /\ Len(archive) = 4
    /\ Len(archive[3][2][2].Properties["$Components"]) = 3
    /\ archive[3][2][2].Properties["$Components"][1]["$Type"] = "Button"

\* the subject of a line: the run of letters, digits and underscores that
\* follows Add, Set or When and white space at the start of the line
SubjectsOf(line) ==
    { SubSeq(line, i, j) : <<i, j>> \in
        { p \in (1..Len(line)) \X (1..Len(line)) :
            /\ p[1] <= p[2]
            /\ \E verb \in { <<"A", "d", "d">>, <<"S", "e", "t">>, <<"W", "h", "e", "n">> } :
                 /\ Len(line) >= Len(verb)
                 /\ \A k \in 1..Len(verb) : line[k] = verb[k]
                 /\ p[1] > Len(verb) + 1
                 /\ \A k \in (Len(verb) + 1)..(p[1] - 1) : line[k] \in {" ", "\t"}
            /\ \A k \in p[1]..p[2] : line[k] \in IdentSet
            /\ p[2] = Len(line) \/ line[p[2] + 1] \notin IdentSet } }

\* a line without the white space at its ends
Trimmed(line) ==
    LET inked == { k \in DOMAIN line : line[k] \notin {" ", "\t"} }
    IN  IF inked = {} THEN <<>>
        ELSE SubSeq(line, CHOOSE k \in inked : \A m \in inked : k <= m,
                          CHOOSE k \in inked : \A m \in inked : k >= m)

\* a subject without the digits at its end
DigitStripped(subject) ==
    LET k == CHOOSE n \in 0..Len(subject) :
                 /\ n = 0 \/ subject[n] \notin DigitSet
                 /\ \A m \in (n + 1)..Len(subject) : subject[m] \in DigitSet
    IN  SubSeq(subject, 1, k)

HasPrefix(line, prefix) ==
    /\ Len(line) >= Len(prefix)
    /\ \A k \in 1..Len(prefix) : line[k] = prefix[k]

\* what the detector is to report for one line
ReportedOfLine ==
    [ rawline \in DetectLines |->
        LET line == Trimmed(rawline)
        IN  IF \/ HasPrefix(line, <<"F", "o", "r", " ">>)
               \/ HasPrefix(line, <<"D", "e", "f", "i", "n", "e", " ", "G", "l", "o", "b", "a", "l">>)
               \/ HasPrefix(line, <<"S", "e", "t", " ", "G", "l", "o", "b", "a", "l">>)
            THEN {}
            ELSE { DigitStripped(s) : s \in
                     { t \in SubjectsOf(line) :
                         /\ Len(t) # 1
                         /\ t # <<"G", "l", "o", "b", "a", "l">>
                         /\ t # <<"B", "u", "t", "t", "o", "n", "_", "i">> } }
                 \ { <<"B", "u", "t", "t", "o", "n">>, <<"L", "a", "b", "e", "l">>, <<"V", "e", "r", "t", "i", "c", "a", "l", "A", "r", "r", "a", "n", "g", "e", "m", "e", "n", "t">>,
                     <<"N", "o", "t", "i", "f", "i", "e", "r">>, <<"S", "c", "r", "e", "e", "n">>, <<"R", "e", "s", "e", "t", "B", "u", "t", "t", "o", "n">>,
                     <<"S", "t", "a", "t", "u", "s", "L", "a", "b", "e", "l">>, <<"B", "u", "t", "t", "o", "n", "C", "o", "n", "t", "a", "i", "n", "e", "r">> } ]

\* C13: the detector returns the digit-stripped subjects of the Add, Set
\* and When lines that are not in the allow-list, the lines that begin
\* with "For ", "Define Global" or "Set Global", the one-character
\* subjects and the subjects Global and Button_i left out; the line
\* Add Widget (Name: W) has Widget reported and Button7 has nothing
\* reported.
C13_DetectorReport ==
    pc = "detected" /\ pseudocode \in DetectTexts =>
        /\ unknown_components
             = UNION { ReportedOfLine[pseudocode[k]] : k \in DOMAIN pseudocode }
        /\ (\E k \in DOMAIN pseudocode : pseudocode[k] = <<"A", "d", "d", " ", "W", "i", "d", "g", "e", "t", " ", "(", "N", "a", "m", "e", ":", " ", "W", ")">>)
               => <<"W", "i", "d", "g", "e", "t">> \in unknown_components
        /\ <<"B", "u", "t", "t", "o", "n">> \notin unknown_components
        /\ <<"B", "u", "t", "t", "o", "n", "7">> \notin unknown_components

\* C13 witness: the detector has run on a text with a Button7 line, a
\* Gizmo12 line and a Set Global line, and reports Gizmo alone.
C13_Witness ==
    /\ pc = "detected"
    /\ pseudocode = << <<"S", "e", "t", " ", "B", "u", "t", "t", "o", "n", "7", ".", "T", "e", "x", "t", " ", "t", "o", " ", "\"", "x", "\"">>, <<"W", "h", "e", "n", " ", "G", "i", "z", "m", "o", "1", "2", ".", "C", "l", "i", "c", "k">>,
                       <<"S", "e", "t", " ", "G", "l", "o", "b", "a", "l", "C", "o", "u", "n", "t", " ", "t", "o", " ", "0">> >>
    /\ unknown_components = { <<"G", "i", "z", "m", "o">> }

\* the components and the name lookup a call run alone has after the
\* first n lines of a text
RECURSIVE ParsedAlone(_, _)
ParsedAlone(text, n) ==
    IF n = 0
    THEN [components |-> <<>>, name_to_component |-> <<>>, exc |-> "none"]
    ELSE LET before == ParsedAlone(text, n - 1)
         IN  ApplyLine(before.components, before.name_to_component, text[n])

\* the final list of a text compiled alone, the Uuid fields left out
AloneList ==
    [ text \in ConcurrentTexts |->
        LET parsed == ParsedAlone(text, Len(text)).components
        IN  WithoutUuid(InjectDefaults(
                [k \in DOMAIN parsed |-> CleanComponent(parsed[k], "0")])) ]

\* C12: of two compilations of different texts that run interleaved line
\* by line, each ends with the component list its text gives when it is
\* compiled alone, the Uuid fields left out.
C12_RequestIsolation ==
    \A r \in DOMAIN requests :
        requests[r].pc = "done" =>
            WithoutUuid(requests[r].cleaned_components)
                = AloneList[requests[r].pseudocode]

\* C12 witness: both requests are done, the first declared Go and the
\* second set the Text of a Go it never declared.
C12_Witness ==
    /\ requests # <<>>
    /\ requests[1].pc = "done"
    /\ requests[2].pc = "done"
    /\ requests[1].pseudocode = << <<"A", "d", "d", " ", "B", "u", "t", "t", "o", "n", " ", "(", "N", "a", "m", "e", ":", " ", "G", "o", ")">> >>
    /\ requests[2].pseudocode = << <<"S", "e", "t", " ", "G", "o", ".", "T", "e", "x", "t", " ", "t", "o", " ", "\"", "S", "t", "a", "r", "t", "\"">> >>
    /\ Len(requests[1].cleaned_components) = 3
    /\ Len(requests[2].cleaned_components) = 2

====
